---- MODULE Spec2Model ----
(***************************************************************************)
(* A model of the random-walk simulation engine: the geometry primitives,  *)
(* the obstacle / gate / restart resolution and the step loop of           *)
(* Simulator.run (src/simulator.py), with the walker of src/walker.py.     *)
(*                                                                         *)
(* Representation.                                                         *)
(*  - A point is a pair <<x, y>>; Python's p[0], p[1] are p[1], p[2] here. *)
(*  - A position value of the program is a Python tuple or a Python list   *)
(*    (the goal of a gate comes out of json.load as a list).  Python's ==  *)
(*    never equates a tuple and a list, so a position is the record        *)
(*    [pt |-> <<x, y>>, kind |-> "tuple" | "list"] and Python's != is      *)
(*    inequality of such records.                                          *)
(*  - Coordinates are integers: the random draws of the two real-valued    *)
(*    walkers are restricted to the angles and lengths with an integer     *)
(*    displacement, computed in exact arithmetic.                          *)
(***************************************************************************)
EXTENDS Integers, Sequences, FiniteSets, TLC

VARIABLES
    \* ---- configuration: the fields set by Simulator.__init__ ----
    walker_type, num_simulations, num_steps, obstacles, gates, direction,
    percents, restart_step,
    \* ---- Simulator.__statistics ----
    statistics,
    \* ---- locals of Simulator.run and its position in the loops ----
    pc, num_simulate, step, position, time_to_leave_radius_10,
    num_crossed_y_axis, keep_calculate, last_distance,
    last_distances_list, time_to_leave_radius_10_list,
    \* ---- what the most recent iteration of the step loop did ----
    last,
    \* ---- a single call of a pure function: its arguments, its result ----
    args, ret,
    \* ---- Inputs.config and Inputs.error_messages ----
    config, error_messages,
    \* ---- the calls of run() made on the Simulator after its first ----
    run_calls

cfgVars == <<walker_type, num_simulations, num_steps, obstacles, gates,
             direction, percents, restart_step>>
runVars == <<statistics, pc, num_simulate, step, position,
             time_to_leave_radius_10, num_crossed_y_axis, keep_calculate,
             last_distance, last_distances_list,
             time_to_leave_radius_10_list, last>>
callVars == <<args, ret, config, error_messages, run_calls>>
vars == <<cfgVars, runVars, callVars>>

(***************************************************************************)
(* Bounds of the model.                                                    *)
(***************************************************************************)
GridX == 3
GridY == 2
MaxSims == 2
MaxSteps == 4
MaxWork == 4
MaxPlainSteps == 7
MaxFairSteps == 3
MaxAgainWork == 2

Min(a, b) == IF a <= b THEN a ELSE b
Max(a, b) == IF a >= b THEN a ELSE b
Abs(a) == IF a < 0 THEN -a ELSE a

Tuple(pt) == [pt |-> pt, kind |-> "tuple"]
List(pt) == [pt |-> pt, kind |-> "list"]

(***************************************************************************)
(* Geometry: Simulator.orientation, is_on_segment, are_lines_intersecting. *)
(***************************************************************************)
orientation_val(p, q, r) ==
    (q[2] - p[2]) * (r[1] - q[1]) - (q[1] - p[1]) * (r[2] - q[2])

orientation(p, q, r) ==
    LET val == orientation_val(p, q, r)
    IN  IF val = 0 THEN 0 ELSE IF val > 0 THEN 1 ELSE 2

is_on_segment(p, q, r) ==
    /\ Min(q[1], r[1]) <= p[1]
    /\ p[1] <= Max(q[1], r[1])
    /\ Min(q[2], r[2]) <= p[2]
    /\ p[2] <= Max(q[2], r[2])

\* Faulty variant: the two special cases of the second segment are left out.
are_lines_intersecting_half(line1_point1, line1_point2, line2_point1, line2_point2) ==
    LET o1 == orientation(line1_point1, line1_point2, line2_point1)
        o2 == orientation(line1_point1, line1_point2, line2_point2)
        o3 == orientation(line2_point1, line2_point2, line1_point1)
        o4 == orientation(line2_point1, line2_point2, line1_point2)
    IN  IF o1 # o2 /\ o3 # o4 THEN TRUE
        ELSE IF o1 = 0 /\ is_on_segment(line1_point1, line2_point1, line1_point2) THEN TRUE
        ELSE IF o2 = 0 /\ is_on_segment(line1_point1, line2_point2, line1_point2) THEN TRUE
        ELSE FALSE

\* Faulty variant: the general case only, no special case for collinear points.
are_lines_intersecting_general(line1_point1, line1_point2, line2_point1, line2_point2) ==
    LET o1 == orientation(line1_point1, line1_point2, line2_point1)
        o2 == orientation(line1_point1, line1_point2, line2_point2)
        o3 == orientation(line2_point1, line2_point2, line1_point1)
        o4 == orientation(line2_point1, line2_point2, line1_point2)
    IN  o1 # o2 /\ o3 # o4

are_lines_intersecting(line1_point1, line1_point2, line2_point1, line2_point2) ==
    LET o1 == orientation(line1_point1, line1_point2, line2_point1)
        o2 == orientation(line1_point1, line1_point2, line2_point2)
        o3 == orientation(line2_point1, line2_point2, line1_point1)
        o4 == orientation(line2_point1, line2_point2, line1_point2)
    IN  IF o1 # o2 /\ o3 # o4 THEN TRUE
        ELSE IF o1 = 0 /\ is_on_segment(line1_point1, line2_point1, line1_point2) THEN TRUE
        ELSE IF o2 = 0 /\ is_on_segment(line1_point1, line2_point2, line1_point2) THEN TRUE
        ELSE IF o3 = 0 /\ is_on_segment(line2_point1, line1_point1, line2_point2) THEN TRUE
        ELSE IF o4 = 0 /\ is_on_segment(line2_point1, line1_point2, line2_point2) THEN TRUE
        ELSE FALSE

(***************************************************************************)
(* Simulator.check_obstacles: the walker's position when some obstacle of  *)
(* the list intersects the step, the candidate otherwise.  The code        *)
(* rebuilds the position as the tuple (x, y).                              *)
(***************************************************************************)
obstacle_hit(walker_position, new_position, obstacle) ==
    are_lines_intersecting(walker_position.pt, new_position.pt,
                           <<obstacle[1], obstacle[2]>>,
                           <<obstacle[3], obstacle[4]>>)

RECURSIVE obstacles_from(_, _, _)
obstacles_from(walker_position, new_position, k) ==
    IF k > Len(obstacles) THEN new_position
    ELSE IF obstacle_hit(walker_position, new_position, obstacles[k])
         THEN Tuple(walker_position.pt)
         ELSE obstacles_from(walker_position, new_position, k + 1)

check_obstacles(walker_position, new_position) ==
    obstacles_from(walker_position, new_position, 1)

(***************************************************************************)
(* Simulator.check_gates.  A gate is [area |-> gate[:-1], goal |->         *)
(* gate[-1]]: the flat list of polyline coordinates and the goal point.    *)
(* The result on a match is gate[-1] itself, a list.                       *)
(***************************************************************************)
gate_coordinate(gate_area, i) == <<gate_area[i * 2 + 1], gate_area[i * 2 + 2]>>

gate_num_pairs(gate) == Len(gate.area) \div 2

RECURSIVE gate_pairs_from(_, _, _, _)
gate_pairs_from(walker_position, new_position, gate, i) ==
    IF i >= gate_num_pairs(gate) - 1 THEN FALSE
    ELSE IF are_lines_intersecting(walker_position.pt, new_position.pt,
                                   gate_coordinate(gate.area, i),
                                   gate_coordinate(gate.area, i + 1))
         THEN TRUE
         ELSE gate_pairs_from(walker_position, new_position, gate, i + 1)

RECURSIVE gates_from(_, _, _)
gates_from(walker_position, new_position, g) ==
    IF g > Len(gates) THEN new_position
    ELSE IF gate_pairs_from(walker_position, new_position, gates[g], 0)
         THEN List(gates[g].goal)
         ELSE gates_from(walker_position, new_position, g + 1)

\* Faulty variant: the scan keeps the goal of the last gate that matches.
RECURSIVE gates_last_from(_, _, _, _)
gates_last_from(walker_position, new_position, g, found) ==
    IF g > Len(gates) THEN found
    ELSE IF gate_pairs_from(walker_position, new_position, gates[g], 0)
         THEN gates_last_from(walker_position, new_position, g + 1, List(gates[g].goal))
         ELSE gates_last_from(walker_position, new_position, g + 1, found)

check_gates_last(walker_position, new_position) ==
    gates_last_from(walker_position, new_position, 1, new_position)

check_gates(walker_position, new_position) ==
    gates_from(walker_position, new_position, 1)

(***************************************************************************)
(* Simulator.check_restart_step.  restart_step is "" or a list:            *)
(* [str |-> TRUE, items |-> <<>>] is "", [str |-> FALSE, items |-> l] is   *)
(* the list l.  coins are the values random.choice([True, False]) returns, *)
(* in the order of the calls; the result carries how many were drawn.      *)
(***************************************************************************)
Origin == <<0, 0>>

RECURSIVE restart_from(_, _, _, _, _)
restart_from(new_position, step_, coins, k, drawn) ==
    IF k > Len(restart_step.items)
    THEN [value |-> new_position, flips |-> drawn]
    ELSE IF step_ = restart_step.items[k]
         THEN IF coins[drawn + 1]
              THEN [value |-> Tuple(Origin), flips |-> drawn + 1]
              ELSE restart_from(new_position, step_, coins, k + 1, drawn + 1)
         ELSE restart_from(new_position, step_, coins, k + 1, drawn)

\* Faulty variant: a matching entry resets the position whatever the coin shows.
RECURSIVE restart_no_coin_from(_, _, _, _, _)
restart_no_coin_from(new_position, step_, coins, k, drawn) ==
    IF k > Len(restart_step.items)
    THEN [value |-> new_position, flips |-> drawn]
    ELSE IF step_ = restart_step.items[k]
         THEN [value |-> Tuple(Origin), flips |-> drawn + 1]
         ELSE restart_no_coin_from(new_position, step_, coins, k + 1, drawn)

check_restart_step_no_coin(new_position, step_, coins) ==
    IF ~restart_step.str
    THEN restart_no_coin_from(new_position, step_, coins, 1, 0)
    ELSE [value |-> new_position, flips |-> 0]

\* Faulty variant: restart_step as a set, one coin for a step however often
\* it is listed.
check_restart_step_dedup(new_position, step_, coins) ==
    IF ~restart_step.str /\ (\E k \in DOMAIN restart_step.items : restart_step.items[k] = step_)
    THEN [value |-> IF coins[1] THEN Tuple(Origin) ELSE new_position, flips |-> 1]
    ELSE [value |-> new_position, flips |-> 0]

check_restart_step(new_position, step_, coins) ==
    IF ~restart_step.str
    THEN restart_from(new_position, step_, coins, 1, 0)
    ELSE [value |-> new_position, flips |-> 0]

\* The number of entries of restart_step equal to the step: the most coins
\* one call can draw.
restart_matches(step_) ==
    Cardinality({k \in DOMAIN restart_step.items : restart_step.items[k] = step_})

(***************************************************************************)
(* Walker (src/walker.py).  Each step method returns a candidate, a new    *)
(* tuple, from the stored position and a random draw.                      *)
(*  - random_step draws direction_degrees with random.randint(0, 360), an  *)
(*    integer of 0..360 with both ends included;                           *)
(*  - random_step_length draws a direction in [0, 360] and a length in     *)
(*    [0.5, 1.5].                                                          *)
(* The model draws from the directions whose cosine and sine are integers  *)
(* and from the integer lengths.                                           *)
(***************************************************************************)
AxisDegrees == {0, 90, 180, 270, 360}

AxisDirections == {0, 90, 180, 270}

UnitLengths == {1}

Cos(d) == CASE d \in {0, 360} -> 1 [] d = 180 -> -1 [] OTHER -> 0

Sin(d) == CASE d = 90 -> 1 [] d = 270 -> -1 [] OTHER -> 0

random_step(walker_position, draw) ==
    Tuple(<<walker_position.pt[1] + Cos(draw.deg),
            walker_position.pt[2] + Sin(draw.deg)>>)

random_step_length(walker_position, draw) ==
    Tuple(<<walker_position.pt[1] + draw.len * Cos(draw.deg),
            walker_position.pt[2] + draw.len * Sin(draw.deg)>>)

four_directions == <<(<<1, 0>>), (<<-1, 0>>), (<<0, 1>>), (<<0, -1>>)>>

\* Faulty variant: the first component of the direction is added to both coordinates.
four_options_step_same_index(walker_position, draw) ==
    LET d == four_directions[draw.choice]
    IN  Tuple(<<walker_position.pt[1] + d[1], walker_position.pt[2] + d[1]>>)

four_options_step(walker_position, draw) ==
    LET d == four_directions[draw.choice]
    IN  Tuple(<<walker_position.pt[1] + d[1], walker_position.pt[2] + d[2]>>)

step_towards_beginning(walker_position) ==
    LET x == walker_position.pt[1]
        y == walker_position.pt[2]
        x2 == IF x > 0 THEN x - 1 ELSE IF x < 0 THEN x + 1 ELSE x
        y2 == IF y > 0 THEN y - 1 ELSE IF y < 0 THEN y + 1 ELSE y
    IN  Tuple(<<x2, y2>>)

all_directions == <<(<<0, 1>>), (<<0, -1>>), (<<1, 0>>), (<<-1, 0>>), (<<0, 0>>)>>

\* The index whose weight is raised; every weight stays positive, so every
\* one of the five directions can be sampled whatever the bias is.
biased_index(increased_direction) ==
    CASE increased_direction = "up" -> 0
      [] increased_direction = "down" -> 1
      [] increased_direction = "left" -> 2
      [] increased_direction = "right" -> 3
      [] OTHER -> 4

\* random.choices returns a list holding the one sample; the code compares
\* that list with the tuple (0, 0).
biased_step(walker_position, increased_direction, increase_percentage, draw) ==
    LET sampled == [items |-> <<all_directions[draw.choice]>>, kind |-> "list"]
        zero == [items |-> <<0, 0>>, kind |-> "tuple"]
        d == sampled.items[1]
    IN  IF sampled.kind = zero.kind /\ sampled.items = zero.items
        THEN step_towards_beginning(walker_position)
        ELSE Tuple(<<walker_position.pt[1] + d[1], walker_position.pt[2] + d[2]>>)

\* Faulty variant: the step method commits its candidate.
position_after_step_commit(walker_position, candidate) == candidate

\* The stored position of the walker after a call of one of its step
\* methods: lines 20-104 hold no assignment to self.__position, and the
\* candidate is built as a new tuple.

position_after_step(walker_position, candidate) == walker_position

\* Walker.get_position: the value it returns.
get_position(walker_position) == walker_position

\* Faulty variant: the stored position is kept.
set_position_keep(walker_position, new_value) == walker_position

\* Walker.set_position: the stored position after the call.
set_position(walker_position, new_value) == new_value

\* The draws one call of a step method can make.
RandomStepDraws == [deg : AxisDegrees]

RandomStepLengthDraws == [deg : AxisDirections, len : UnitLengths]

FourOptionsDraws == [choice : 1..4]

BiasedDraws == [choice : 1..5]

\* The draws one call of execute_move can make.
Draws ==
    CASE walker_type = 4 -> BiasedDraws
      [] walker_type = 3 -> FourOptionsDraws
      [] walker_type = 2 -> RandomStepLengthDraws
      [] OTHER -> RandomStepDraws

execute_move(walker_position, draw) ==
    IF walker_type = 4 THEN biased_step(walker_position, direction, percents, draw)
    ELSE IF walker_type = 3 THEN four_options_step(walker_position, draw)
    ELSE IF walker_type = 2 THEN random_step_length(walker_position, draw)
    ELSE random_step(walker_position, draw)

(***************************************************************************)
(* Numbers of the statistics.                                              *)
(*  - A distance from the origin d is held as its square d * d, an         *)
(*    integer (np.linalg.norm is the square root of it); d < 10 is         *)
(*    d * d < 100.                                                         *)
(*  - A value of a series is a Python list of samples, [isList |-> TRUE,   *)
(*    of |-> samples, div |-> 0], or a number: [isList |-> FALSE,          *)
(*    of |-> summands, div |-> n] is sum(summands) / n.                    *)
(*  - A key of average_time_to_leave_radius_10 is a rational <<num, den>>  *)
(*    in lowest terms; the step k is <<k, 1>>.                             *)
(***************************************************************************)
RadiusSq == 100

Norm2(p) == p.pt[1] * p.pt[1] + p.pt[2] * p.pt[2]

Samples(s) == [isList |-> TRUE, of |-> s, div |-> 0]

Quotient(summands, n) == [isList |-> FALSE, of |-> summands, div |-> n]

RECURSIVE Sum(_)
Sum(s) == IF s = <<>> THEN 0 ELSE Head(s) + Sum(Tail(s))

RECURSIVE GCD(_, _)
GCD(a, b) == IF b = 0 THEN a ELSE GCD(b, a % b)

Rational(num, den) == <<num \div GCD(num, den), den \div GCD(num, den)>>

StepKey(k) == <<k, 1>>

SeriesNames == {"average_distance_from_origin", "average_distance_from_y_axis",
                "average_distance_from_x_axis", "crossed_y_axis"}

\* Simulator.__init__: the statistics of a new Simulator.
initial_statistics ==
    [average_distance_from_origin |-> <<>>,
     average_time_to_leave_radius_10 |-> <<>>,
     average_distance_from_y_axis |-> <<>>,
     average_distance_from_x_axis |-> <<>>,
     crossed_y_axis |-> <<>>,
     locations_list |-> <<Tuple(Origin)>>]

\* Faulty variant: the stride keys only, without the final step.
statistics_keys_stride == {k \in 0..num_steps : k % 5 = 0}

\* Simulator.create_statistics_dict: the dictionary it stores under a name.
statistics_keys ==
    {k \in 0..num_steps : k % 5 = 0}
        \cup (IF num_steps % 5 # 0 THEN {num_steps} ELSE {})

create_statistics_dict ==
    [k \in statistics_keys |-> IF k = 0 THEN Samples(<<0>>) ELSE Samples(<<>>)]

\* Faulty variant: the sum of the samples, not divided by their number.
average_of_sum(numbers) == Quotient(numbers.of, 1)

\* Simulator.set_statistics_to_average on one value of a dictionary: an
\* empty list and the number 0 are false in 'if numbers'.
average_of(numbers) ==
    IF numbers.isList /\ numbers.of # <<>>
    THEN Quotient(numbers.of, Len(numbers.of))
    ELSE Quotient(<<>>, 1)

\* Line 160: sum(numbers) raises TypeError when numbers is a number other
\* than 0 (a sum of non-negative terms is 0 when every term is).
average_raises(dict) ==
    \E key \in DOMAIN dict : ~dict[key].isList /\ Sum(dict[key].of) # 0

set_statistics_to_average(dict) == [key \in DOMAIN dict |-> average_of(dict[key])]

\* dict[key] = value of a Python dictionary.
DictSet(dict, key, value) ==
    [k \in DOMAIN dict \cup {key} |-> IF k = key THEN value ELSE dict[k]]

\* Faulty variant: a key the dictionary already has keeps its value.
update_dict_time_to_leave_keep(dict, last_distance_list, time_to_leave_list) ==
    LET average_distance == Quotient(last_distance_list, Len(last_distance_list))
        average_time_to_leave == Rational(Sum(time_to_leave_list), Len(time_to_leave_list))
    IN  IF average_time_to_leave \in DOMAIN dict THEN dict
        ELSE DictSet(dict, average_time_to_leave, average_distance)

\* Simulator.update_dict_time_to_leave; it divides by the number of runs.
update_dict_time_to_leave(dict, last_distance_list, time_to_leave_list) ==
    LET average_distance == Quotient(last_distance_list, Len(last_distance_list))
        average_time_to_leave == Rational(Sum(time_to_leave_list), Len(time_to_leave_list))
    IN  DictSet(dict, average_time_to_leave, average_distance)

(***************************************************************************)
(* Simulator.run, one action per loop iteration.                           *)
(*   pc = "new"      the Simulator is constructed, run() not yet called    *)
(*   pc = "loop"     at the head of the loop over the simulations          *)
(*   pc = "step"     at the head of the loop over the steps                *)
(*   pc = "end_run"  after the last step of a run (lines 109-110)          *)
(*   pc = "done"     run() has returned                                    *)
(*   pc = "error"    run() has raised: ZeroDivisionError with no run, or,  *)
(*                   called again, AttributeError at line 89 or TypeError  *)
(*                   at line 160 on a value that is a number, not a list   *)
(***************************************************************************)
NoStep == [step |-> 0]

NoCall == [fn |-> "none"]

NoResult == [done |-> FALSE]

\* Faulty variant: the loop over the steps ends one step early.
more_steps_short(step_) == step_ < num_steps - 1

\* Line 69, range(1, num_steps + 1): another step follows the step step_.
more_steps(step_) == step_ < num_steps

\* Line 60, range(num_simulations): another simulation follows.
more_simulations == num_simulate < num_simulations

\* Lines 51-57.
RunBegin ==
    /\ pc = "new"
    /\ statistics' = [statistics EXCEPT
                        !.average_distance_from_origin = create_statistics_dict,
                        !.average_distance_from_y_axis = create_statistics_dict,
                        !.average_distance_from_x_axis = create_statistics_dict,
                        !.crossed_y_axis = create_statistics_dict]
    /\ last_distances_list' = <<>>
    /\ time_to_leave_radius_10_list' = <<>>
    /\ num_simulate' = 0
    /\ pc' = "loop"
    /\ UNCHANGED <<cfgVars, callVars, step, position, time_to_leave_radius_10,
                   num_crossed_y_axis, keep_calculate, last_distance, last>>

\* Lines 60-66: the next simulation starts with a new Walker.
SimBegin ==
    /\ pc = "loop"
    /\ more_simulations
    /\ position' = Tuple(Origin)
    /\ time_to_leave_radius_10' = 0
    /\ num_crossed_y_axis' = 0
    /\ keep_calculate' = TRUE
    /\ last_distance' = 0
    /\ step' = 1
    /\ pc' = IF num_steps >= 1 THEN "step" ELSE "end_run"
    /\ UNCHANGED <<cfgVars, callVars, statistics, num_simulate,
                   last_distances_list, time_to_leave_radius_10_list, last>>

\* Faulty variant: the circle of radius 10 counts as inside.
inside_radius_closed(distance_from_origin, keep_calculate_) ==
    distance_from_origin <= RadiusSq /\ keep_calculate_

\* Faulty variant: the test of line 85 without keep_calculate.
inside_radius_no_latch(distance_from_origin, keep_calculate_) ==
    distance_from_origin < RadiusSq

\* Line 85: the run is still counting and the walker is inside the radius.
inside_radius(distance_from_origin, keep_calculate_) ==
    distance_from_origin < RadiusSq /\ keep_calculate_

\* Lines 92-93: the elif branch, taken when the test of line 85 fails.
left_radius(distance_from_origin, keep_calculate_) ==
    /\ ~inside_radius(distance_from_origin, keep_calculate_)
    /\ distance_from_origin > RadiusSq

\* Faulty variant: every change of the y-coordinate counts as a crossing.
y_axis_crossed_any_change(old_position, new_position, step_) ==
    old_position.pt[2] # new_position.pt[2]

\* Faulty variant: a position on the axis counts as being on either side.
y_axis_crossed_touching(old_position, new_position, step_) ==
    /\ \/ old_position.pt[2] >= 0 /\ 0 >= new_position.pt[2]
       \/ old_position.pt[2] <= 0 /\ 0 <= new_position.pt[2]
    /\ step_ > 0

\* Line 96: the test of a crossing, on the y-coordinates of the positions
\* before and after the step.
y_axis_crossed(old_position, new_position, step_) ==
    /\ \/ old_position.pt[2] > 0 /\ 0 > new_position.pt[2]
       \/ old_position.pt[2] < 0 /\ 0 < new_position.pt[2]
    /\ step_ > 0

obstacle_cancels(walker_position, new_position) ==
    \E k \in DOMAIN obstacles : obstacle_hit(walker_position, new_position, obstacles[k])

DictAppend(dict, key, value) ==
    [dict EXCEPT ![key] = Samples(Append(dict[key].of, value))]

\* Faulty variant: the restart check is made first, before the obstacle and gate
\* checks.
resolve_move_restart_first(walker_position, step_, draw, coins) ==
    LET candidate == execute_move(walker_position, draw)
        restart == check_restart_step(candidate, step_, coins)
        after_obstacles == check_obstacles(walker_position, restart.value)
        gates_checked == after_obstacles # walker_position
        after_gates == IF gates_checked
                       THEN check_gates(walker_position, after_obstacles)
                       ELSE after_obstacles
    IN  [step |-> step_, draw |-> draw, candidate |-> candidate,
         obstacle_cancelled |-> obstacle_cancels(walker_position, restart.value),
         after_obstacles |-> after_obstacles,
         gates_checked |-> gates_checked,
         after_gates |-> after_gates,
         coins |-> [i \in 1..restart.flips |-> coins[i]],
         old_position |-> walker_position,
         new_position |-> after_gates]

\* Lines 72-78: the candidate of the walker, passed through the obstacle
\* check, the gate check (when the result differs from the walker's
\* position) and the restart check.
resolve_move(walker_position, step_, draw, coins) ==
    LET candidate == execute_move(walker_position, draw)
        after_obstacles == check_obstacles(walker_position, candidate)
        gates_checked == after_obstacles # walker_position
        after_gates == IF gates_checked
                       THEN check_gates(walker_position, after_obstacles)
                       ELSE after_obstacles
        restart == check_restart_step(after_gates, step_, coins)
    IN  [step |-> step_, draw |-> draw, candidate |-> candidate,
         obstacle_cancelled |-> obstacle_cancels(walker_position, candidate),
         after_obstacles |-> after_obstacles,
         gates_checked |-> gates_checked,
         after_gates |-> after_gates,
         coins |-> [i \in 1..restart.flips |-> coins[i]],
         old_position |-> walker_position,
         new_position |-> restart.value]

\* Line 89: .append raises AttributeError when the value under the step is
\* a number, which a returned run() has left there.
append_raises(time_dict, step_, inside) ==
    /\ inside
    /\ StepKey(step_) \in DOMAIN time_dict
    /\ ~time_dict[StepKey(step_)].isList

\* Lines 69-108: one iteration of the loop over the steps.
Step ==
    /\ pc = "step"
    /\ \E draw \in Draws, coins \in [1..restart_matches(step) -> BOOLEAN] :
       \E move \in {resolve_move(position, step, draw, coins)} :
       \E distance_from_origin \in {Norm2(move.new_position)} :
       \E inside \in {inside_radius(distance_from_origin, keep_calculate)} :
       \E crossed \in {y_axis_crossed(move.old_position, move.new_position, step)} :
       \E crossings \in {IF crossed THEN num_crossed_y_axis + 1 ELSE num_crossed_y_axis} :
       \E sampled \in {(step \in DOMAIN statistics.average_distance_from_origin) /\ step > 0} :
        LET time_dict == statistics.average_time_to_leave_radius_10
            Add(name, value) ==
                IF sampled THEN DictAppend(statistics[name], step, value)
                ELSE statistics[name]
        IN  IF append_raises(time_dict, step, inside)
            THEN
            /\ position' = set_position(position, move.new_position)
            /\ statistics' = [statistics EXCEPT
                  !.locations_list = Append(@, move.new_position)]
            /\ time_to_leave_radius_10' = time_to_leave_radius_10 + 1
            /\ last_distance' = distance_from_origin
            /\ last' = move
            /\ pc' = "error"
            /\ UNCHANGED <<keep_calculate, num_crossed_y_axis, step>>
            ELSE
            /\ position' = set_position(position, move.new_position)
            /\ time_to_leave_radius_10' =
                  IF inside THEN time_to_leave_radius_10 + 1 ELSE time_to_leave_radius_10
            /\ last_distance' = IF inside THEN distance_from_origin ELSE last_distance
            /\ keep_calculate' =
                  IF left_radius(distance_from_origin, keep_calculate)
                  THEN FALSE ELSE keep_calculate
            /\ num_crossed_y_axis' = crossings
            /\ statistics' =
                  [locations_list |-> Append(statistics.locations_list, move.new_position),
                   average_time_to_leave_radius_10 |->
                       IF ~inside THEN time_dict
                       ELSE IF StepKey(step) \in DOMAIN time_dict
                            THEN DictAppend(time_dict, StepKey(step), distance_from_origin)
                            ELSE DictSet(time_dict, StepKey(step),
                                         Samples(<<distance_from_origin>>)),
                   average_distance_from_origin |->
                       Add("average_distance_from_origin", distance_from_origin),
                   average_distance_from_y_axis |->
                       Add("average_distance_from_y_axis", Abs(move.new_position.pt[1])),
                   average_distance_from_x_axis |->
                       Add("average_distance_from_x_axis", Abs(move.new_position.pt[2])),
                   crossed_y_axis |-> Add("crossed_y_axis", crossings)]
            /\ last' = move
            /\ IF more_steps(step)
               THEN step' = step + 1 /\ pc' = "step"
               ELSE step' = step /\ pc' = "end_run"
    /\ UNCHANGED <<cfgVars, callVars, num_simulate, last_distances_list,
                   time_to_leave_radius_10_list>>

\* Lines 109-110.
SimEnd ==
    /\ pc = "end_run"
    /\ last_distances_list' = Append(last_distances_list, last_distance)
    /\ time_to_leave_radius_10_list' =
          Append(time_to_leave_radius_10_list, time_to_leave_radius_10)
    /\ num_simulate' = num_simulate + 1
    /\ pc' = "loop"
    /\ UNCHANGED <<cfgVars, callVars, statistics, step, position,
                   time_to_leave_radius_10, num_crossed_y_axis, keep_calculate,
                   last_distance, last>>

\* Lines 112-118: the five reductions, then the summary entry.  With no run
\* the two lists are empty and update_dict_time_to_leave divides by zero.
Reduce ==
    /\ pc = "loop"
    /\ ~more_simulations
    /\ LET reduced == [statistics EXCEPT
               !.average_distance_from_origin = set_statistics_to_average(@),
               !.average_distance_from_y_axis = set_statistics_to_average(@),
               !.average_distance_from_x_axis = set_statistics_to_average(@),
               !.crossed_y_axis = set_statistics_to_average(@),
               !.average_time_to_leave_radius_10 = set_statistics_to_average(@)]
       IN  IF average_raises(statistics.average_time_to_leave_radius_10)
           THEN /\ statistics' = [reduced EXCEPT
                      !.average_time_to_leave_radius_10 =
                          statistics.average_time_to_leave_radius_10]
                /\ pc' = "error"
           ELSE IF Len(last_distances_list) = 0
           THEN /\ statistics' = reduced
                /\ pc' = "error"
           ELSE /\ statistics' = [reduced EXCEPT
                      !.average_time_to_leave_radius_10 =
                          update_dict_time_to_leave(@, last_distances_list,
                                                    time_to_leave_radius_10_list)]
                /\ pc' = "done"
    /\ UNCHANGED <<cfgVars, callVars, num_simulate, step, position,
                   time_to_leave_radius_10, num_crossed_y_axis, keep_calculate,
                   last_distance, last_distances_list,
                   time_to_leave_radius_10_list, last>>

(***************************************************************************)
(* Inputs (src/random_walk_inputs.py): the validation of a configuration.  *)
(* A value that json.load can produce is [t |-> type, n |-> the number,    *)
(* s |-> the string, items |-> the elements of a list]; a configuration    *)
(* is a record of such values, one per key, the value Absent standing for  *)
(* a key the file does not have, together with the set of its other keys.  *)
(* The result of a validator is [ok |-> the value returned, msgs |->       *)
(* error_messages after the call, raised |-> an exception left the call].  *)
(***************************************************************************)
Absent == [t |-> "absent", n |-> 0, s |-> "", items |-> <<>>]

IntV(n) == [t |-> "int", n |-> n, s |-> "", items |-> <<>>]

StrV(s) == [t |-> "str", n |-> 0, s |-> s, items |-> <<>>]

ListV(items) == [t |-> "list", n |-> 0, s |-> "", items |-> items]

IsStr(value, s) == value.t = "str" /\ value.s = s

Returns(ok, msgs) == [ok |-> ok, msgs |-> msgs, raised |-> FALSE]

Fails(msgs, message) == Returns(FALSE, Append(msgs, message))

\* self.config[key] of a key the dictionary does not have: KeyError.
Raises(msgs) == [ok |-> FALSE, msgs |-> msgs, raised |-> TRUE]

valid_walker_type(config_, msgs) ==
    IF config_.walker_type = Absent THEN Fails(msgs, "You must enter the type of the walker")
    ELSE IF config_.walker_type.t = "int" /\ config_.walker_type.n \in {1, 2, 3, 4}
         THEN Returns(TRUE, msgs)
         ELSE Fails(msgs, "You must enter the type of the walker")

valid_num_simulations(config_, msgs) ==
    IF config_.num_simulations = Absent THEN Fails(msgs, "You must enter num_simulations")
    ELSE IF /\ config_.num_simulations.t = "int"
            /\ 1 <= config_.num_simulations.n
            /\ config_.num_simulations.n <= 10000
         THEN Returns(TRUE, msgs)
         ELSE Fails(msgs, "num_simulations must be a positive number smaller than 1000")

valid_num_steps(config_, msgs) ==
    IF config_.num_steps = Absent THEN Fails(msgs, "You must enter num_steps")
    ELSE IF /\ config_.num_steps.t = "int"
            /\ 1 <= config_.num_steps.n
            /\ config_.num_steps.n <= 10000
         THEN Returns(TRUE, msgs)
         ELSE Fails(msgs, "num_steps must be a positive number smaller than 10000")

valid_save_results(config_, msgs) ==
    IF config_.save_results = Absent THEN Fails(msgs, "You must enter save_results")
    ELSE IF IsStr(config_.save_results, "Yes") \/ IsStr(config_.save_results, "No")
         THEN Returns(TRUE, msgs)
         ELSE Fails(msgs, "you must enter if you want to save the results - Yes / No")

valid_plot_statistics(config_, msgs) ==
    IF config_.plot_statistics = Absent THEN Fails(msgs, "You must enter plot_statistics")
    ELSE IF IsStr(config_.plot_statistics, "Yes") \/ IsStr(config_.plot_statistics, "No")
         THEN Returns(TRUE, msgs)
         ELSE Fails(msgs, "you must enter if you want to plot the statistics - Yes / No")

AllInts(items) == \A i \in DOMAIN items : items[i].t = "int"

\* Lines 181-191: the loop over the obstacles, from the k-th.
RECURSIVE valid_obstacles_from(_, _, _)
valid_obstacles_from(items, msgs, k) ==
    IF k > Len(items) THEN Returns(TRUE, msgs)
    ELSE IF Len(items[k].items) # 4
         THEN Fails(msgs, "Each obstacle has 2 points")
         ELSE IF ~AllInts(items[k].items)
              THEN Fails(msgs, "Each point in the obstacle consists only of numbers")
              ELSE valid_obstacles_from(items, msgs, k + 1)

valid_obstacles(config_, msgs) ==
    IF config_.obstacles = Absent
    THEN Fails(msgs, "if you don't want to enter obstacles, write in the value: ")
    ELSE IF IsStr(config_.obstacles, "") THEN Returns(TRUE, msgs)
    ELSE IF config_.obstacles.t # "list"
         THEN Fails(msgs, "Each obstacle has 2 points that will be recorded in list")
    ELSE IF \E i \in DOMAIN config_.obstacles.items : config_.obstacles.items[i].t # "list"
         THEN Fails(msgs, "all the obstacles must be in list inside main list")
    ELSE valid_obstacles_from(config_.obstacles.items, msgs, 1)

\* Lines 213-228: the loop over the gates, from the k-th.
RECURSIVE valid_gates_from(_, _, _)
valid_gates_from(items, msgs, k) ==
    IF k > Len(items) THEN Returns(TRUE, msgs)
    ELSE LET gate == items[k].items
         IN  IF Len(gate) % 2 = 0 \/ Len(gate) < 5
             THEN Fails(msgs, "Each gate contains at least 2 points and a goal point")
             ELSE IF gate[Len(gate)].t # "list" \/ Len(gate[Len(gate)].items) # 2
                  THEN Fails(msgs, "The gate must contain one point")
                  ELSE IF ~AllInts(SubSeq(gate, 1, Len(gate) - 1))
                       THEN Fails(msgs, "Each point in the gate consists only of numbers")
                       ELSE valid_gates_from(items, msgs, k + 1)

valid_gates(config_, msgs) ==
    IF config_.gates = Absent
    THEN Fails(msgs, "if you don't want to enter gates, write in the value: ")
    ELSE IF IsStr(config_.gates, "") THEN Returns(TRUE, msgs)
    ELSE IF config_.gates.t # "list"
         THEN Fails(msgs, "Each gate contains at least 2 points and a goal point in list")
    ELSE IF \E i \in DOMAIN config_.gates.items : config_.gates.items[i].t # "list"
         THEN Fails(msgs, "all the gates must be in list inside main list")
    ELSE valid_gates_from(config_.gates.items, msgs, 1)

Is4(value) == value.t = "int" /\ value.n = 4

BiasDirectionNames == {"up", "down", "left", "right", "beginning of axis"}

\* Lines 230-253.  With walker_type 4 and no key the first branch appends
\* its message and does not return.
valid_biased_walker_direction(config_, msgs) ==
    IF config_.walker_type = Absent THEN Raises(msgs)
    ELSE IF ~Is4(config_.walker_type) /\ config_.biased_walker_direction = Absent
         THEN Fails(msgs, "No biased_walker_direction")
    ELSE LET msgs1 == IF Is4(config_.walker_type)
                         /\ config_.biased_walker_direction = Absent
                      THEN Append(msgs, "You chose biased walker, so you must choose which direction")
                      ELSE msgs
         IN  IF ~Is4(config_.walker_type) /\ IsStr(config_.biased_walker_direction, "")
             THEN Returns(TRUE, msgs1)
             ELSE IF config_.biased_walker_direction = Absent THEN Raises(msgs1)
             ELSE IF /\ config_.biased_walker_direction.t = "str"
                     /\ config_.biased_walker_direction.s \in BiasDirectionNames
                  THEN Returns(TRUE, msgs1)
                  ELSE Fails(msgs1, "biased_walker_direction must one of these directions")

\* Lines 255-276, of the same shape.
valid_biased_walker_increasing(config_, msgs) ==
    IF config_.walker_type = Absent THEN Raises(msgs)
    ELSE IF ~Is4(config_.walker_type) /\ config_.biased_walker_increasing = Absent
         THEN Fails(msgs, "No biased_walker_increasing")
    ELSE LET msgs1 == IF Is4(config_.walker_type)
                         /\ config_.biased_walker_increasing = Absent
                      THEN Append(msgs, "You chose biased walker, so you must choose how many percentages")
                      ELSE msgs
         IN  IF ~Is4(config_.walker_type) /\ IsStr(config_.biased_walker_increasing, "")
             THEN Returns(TRUE, msgs1)
             ELSE IF config_.biased_walker_increasing = Absent THEN Raises(msgs1)
             ELSE IF config_.biased_walker_increasing.t # "int"
                  THEN Fails(msgs1, "biased_walker_increasing must be number between 1 and 100")
             ELSE IF /\ 0 <= config_.biased_walker_increasing.n
                     /\ config_.biased_walker_increasing.n <= 100
                  THEN Returns(TRUE, msgs1)
                  ELSE Fails(msgs1, "biased_walker_increasing must be number between 1 and 100")

valid_restart_step(config_, msgs) ==
    IF config_.restart_step = Absent
    THEN Fails(msgs, "if you don't want to enter restart step, write in the value: ")
    ELSE IF IsStr(config_.restart_step, "") THEN Returns(TRUE, msgs)
    ELSE IF config_.restart_step.t # "list"
         THEN Fails(msgs, "restart_step must be a list of positive numbers")
    ELSE IF \E i \in DOMAIN config_.restart_step.items :
                \/ config_.restart_step.items[i].t \notin {"int", "float"}
                \/ config_.restart_step.items[i].n <= 0
         THEN Fails(msgs, "restart_step must be a list of positive numbers")
    ELSE Returns(TRUE, msgs)

\* a and b: b is evaluated when a returned True.
AndThen(first, second) == IF first.raised \/ ~first.ok THEN first ELSE second

\* Inputs.check_inputs.  self.config is whatever json.load returned: an
\* array at the top of the file has no method keys.
check_inputs(config_, msgs) ==
    IF config_.top # "object" THEN Raises(msgs)
    ELSE IF config_.others # {}
         THEN Fails(msgs, "you entered unexpected keys")
    ELSE LET r1 == valid_walker_type(config_, msgs)
             r2 == AndThen(r1, valid_num_simulations(config_, r1.msgs))
             r3 == AndThen(r2, valid_num_steps(config_, r2.msgs))
             r4 == AndThen(r3, valid_save_results(config_, r3.msgs))
             r5 == AndThen(r4, valid_plot_statistics(config_, r4.msgs))
             r6 == AndThen(r5, valid_obstacles(config_, r5.msgs))
             r7 == AndThen(r6, valid_gates(config_, r6.msgs))
             r8 == AndThen(r7, valid_biased_walker_direction(config_, r7.msgs))
             r9 == AndThen(r8, valid_biased_walker_increasing(config_, r8.msgs))
         IN  AndThen(r9, valid_restart_step(config_, r9.msgs))

\* Inputs.parse_config_file, on the kind of thing the path names.
parse_config_file(path, msgs) ==
    CASE path = "empty" -> Fails(msgs, "File path is empty.")
      [] path = "missing" -> Fails(msgs, "File path does not exist.")
      [] path = "directory" -> Fails(msgs, "Path does not point to a file.")
      [] path = "invalid json" -> Fails(msgs, "Error: Invalid JSON format in file")
      [] OTHER -> Returns(TRUE, msgs)

\* self.config = {}: no key.
NoConfig ==
    [top |-> "object", others |-> {},
     walker_type |-> Absent, num_simulations |-> Absent, num_steps |-> Absent,
     save_results |-> Absent, plot_statistics |-> Absent, obstacles |-> Absent,
     gates |-> Absent, biased_walker_direction |-> Absent,
     biased_walker_increasing |-> Absent, restart_step |-> Absent]

(***************************************************************************)
(* The configurations of the runs.  Obstacles are [x1, y1, x2, y2]; a run  *)
(* with no obstacles, gates or restart steps is configured with "", which  *)
(* the loops of the code iterate over as over an empty list.               *)
(***************************************************************************)
NoRestart == [str |-> TRUE, items |-> <<>>]

RestartList(l) == [str |-> FALSE, items |-> l]

ObstacleAtOrigin == <<0, 1, 1, 1>>

ObstacleAtGoal == <<12, 1, 13, 1>>

GateFar == [area |-> <<20, 20, 21, 20, 21, 21>>, goal |-> <<0, 3>>]

GateNear == [area |-> <<1, -1, 1, 1>>, goal |-> <<12, 0>>]

GateEdge == [area |-> <<-1, -1, -1, 1>>, goal |-> <<10, 0>>]

GateDown == [area |-> <<-1, 2, 1, 2>>, goal |-> <<0, -2>>]

ObstacleConfigs == {<<>>, <<ObstacleAtOrigin, ObstacleAtGoal>>}

GateConfigs ==
    {<<>>, <<GateNear, GateEdge, GateDown>>, <<GateFar, GateNear, GateEdge>>}

RestartConfigs == {NoRestart, RestartList(<<2, 2>>)}

\* The runs of more than MaxSteps steps: one simulation of the
\* four-direction walker with no obstacles, gates or restart steps.
PlainLongRun ==
    /\ walker_type = 3
    /\ num_simulations = 1
    /\ obstacles = <<>>
    /\ gates = <<>>
    /\ restart_step = NoRestart

Init ==
    /\ walker_type \in 1..4
    /\ num_simulations \in 0..MaxSims
    /\ num_steps \in 1..MaxPlainSteps
    /\ num_simulations <= 1 \/ num_simulations * num_steps <= MaxWork
    /\ obstacles \in ObstacleConfigs
    /\ gates \in GateConfigs
    /\ restart_step \in RestartConfigs
    /\ num_steps <= MaxSteps \/ PlainLongRun
    /\ direction \in (IF walker_type = 4 THEN {"beginning of axis"} ELSE {""})
    /\ percents = (IF walker_type = 4 THEN 50 ELSE 0)
    /\ statistics = initial_statistics
    /\ pc = "new"
    /\ num_simulate = 0
    /\ step = 0
    /\ position = Tuple(Origin)
    /\ time_to_leave_radius_10 = 0
    /\ num_crossed_y_axis = 0
    /\ keep_calculate = TRUE
    /\ last_distance = 0
    /\ last_distances_list = <<>>
    /\ time_to_leave_radius_10_list = <<>>
    /\ last = NoStep
    /\ args = NoCall
    /\ ret = NoResult
    /\ config = NoConfig
    /\ error_messages = <<>>
    /\ run_calls = 0

Next == RunBegin \/ SimBegin \/ Step \/ SimEnd \/ Reduce

Spec == Init /\ [][Next]_vars

\* run() is called again on a Simulator whose first run() has returned:
\* lines 51-57 replace the four per-step series and the two lists.
RunAgain ==
    /\ pc = "done"
    /\ run_calls = 0
    /\ run_calls' = 1
    /\ statistics' = [statistics EXCEPT
                        !.average_distance_from_origin = create_statistics_dict,
                        !.average_distance_from_y_axis = create_statistics_dict,
                        !.average_distance_from_x_axis = create_statistics_dict,
                        !.crossed_y_axis = create_statistics_dict]
    /\ last_distances_list' = <<>>
    /\ time_to_leave_radius_10_list' = <<>>
    /\ num_simulate' = 0
    /\ pc' = "loop"
    /\ UNCHANGED <<cfgVars, args, ret, config, error_messages, step, position,
                   time_to_leave_radius_10, num_crossed_y_axis, keep_calculate,
                   last_distance, last>>

NextAgain == RunBegin \/ SimBegin \/ Step \/ SimEnd \/ Reduce \/ RunAgain

\* The Simulators on which run() is called twice make MaxAgainWork steps or
\* fewer in a call.
InitAgain == Init /\ num_simulations * num_steps <= MaxAgainWork

SpecAgain == InitAgain /\ [][NextAgain]_vars

\* The position of run() in its loops.
Control == <<pc, step, num_simulate>>

\* What an iteration of the loop over the steps does to the position of
\* run() in its loops: a step of Spec changes Control in this way exactly
\* when it is a Step step.
StepAdvance ==
    /\ pc = "step"
    /\ pc' \in {"step", "end_run"}
    /\ step' \in {step, step + 1}
    /\ num_simulate' = num_simulate

\* run() is sequential code with no suspension point: while an iteration or
\* the reduction remains, it is executed.
InitFair == Init /\ num_steps <= MaxFairSteps

SpecFair ==
    /\ InitFair
    /\ [][Next]_vars
    /\ WF_vars(RunBegin)
    /\ WF_vars(SimBegin)
    /\ WF_Control(StepAdvance)
    /\ WF_vars(SimEnd)
    /\ WF_vars(Reduce)

(***************************************************************************)
(* Single calls of the geometry and resolution methods, on arguments drawn *)
(* from a grid of integer points.                                          *)
(***************************************************************************)
Grid == (0..GridX) \X (0..GridY)

Segment(p, q) == <<p[1], p[2], q[1], q[2]>>

CallObstacleA == <<1, 0, 1, 2>>

CallObstacleB == <<0, 2, 3, 2>>

CallObstacleC == <<2, 0, 3, 0>>

CallObstacleLists(p, q) ==
    {<<>>, <<CallObstacleA>>, <<CallObstacleC>>, <<Segment(p, q)>>, <<Segment(q, p)>>,
     <<CallObstacleA, Segment(q, p)>>, <<Segment(p, q), CallObstacleB>>,
     <<CallObstacleA, CallObstacleB>>}

CallGateA == [area |-> <<0, 1, 2, 1>>, goal |-> <<3, 0>>]

CallGateB == [area |-> <<1, 0, 1, 2, 3, 2>>, goal |-> <<0, 2>>]

CallGateLists ==
    {<<>>, <<CallGateA>>, <<CallGateB>>, <<CallGateA, CallGateB>>,
     <<CallGateB, CallGateA>>}

CallRestartLists ==
    {NoRestart, RestartList(<<>>), RestartList(<<2>>), RestartList(<<2, 2>>),
     RestartList(<<1, 2, 2>>), RestartList(<<3, 2, 1, 2>>)}

Positions(p) == {Tuple(p), List(p)}

InitSimulatorCall ==
    \/ /\ args \in [fn : {"are_lines_intersecting"},
                    a1 : Grid, a2 : Grid, b1 : Grid, b2 : Grid]
       /\ obstacles = <<>>
       /\ gates = <<>>
       /\ restart_step = NoRestart
    \/ /\ \E p \in Grid, q \in Grid :
            /\ args \in [fn : {"check_obstacles"}, walker_position : Positions(p),
                         new_position : {Tuple(q)}]
            /\ obstacles \in CallObstacleLists(p, q)
       /\ gates = <<>>
       /\ restart_step = NoRestart
    \/ /\ args \in [fn : {"check_gates"},
                    walker_position : UNION {Positions(p) : p \in Grid},
                    new_position : {Tuple(q) : q \in Grid}]
       /\ obstacles = <<>>
       /\ gates \in CallGateLists
       /\ restart_step = NoRestart
    \/ /\ args \in [fn : {"check_restart_step"},
                    new_position : UNION {Positions(p) : p \in Grid},
                    step : 1..MaxSteps]
       /\ obstacles = <<>>
       /\ gates = <<>>
       /\ restart_step \in CallRestartLists

\* The stored positions of a Walker on which a method is called, and the
\* arguments of the call.
WalkerGrid == (-GridY..GridY) \X (-GridY..GridY)

WalkerPositions == UNION {Positions(p) : p \in WalkerGrid}

BiasDirections == {"up", "down", "left", "right", "beginning of axis"}

BiasPercents == {0, 50}

InitWalkerCall ==
    \/ args \in [fn : {"random_step", "random_step_length", "four_options_step",
                        "step_towards_beginning", "get_position"},
                  self : {position}]
    \/ args \in [fn : {"biased_step"}, self : {position},
                  increased_direction : BiasDirections,
                  increase_percentage : BiasPercents]
    \/ args \in [fn : {"set_position"}, self : {position},
                  position : WalkerPositions]

InitCall ==
    /\ walker_type = 3
    /\ num_simulations = 1
    /\ num_steps = MaxSteps
    /\ direction = ""
    /\ percents = 0
    /\ statistics = initial_statistics
    /\ pc = "call"
    /\ num_simulate = 0
    /\ step = 0
    /\ time_to_leave_radius_10 = 0
    /\ num_crossed_y_axis = 0
    /\ keep_calculate = TRUE
    /\ last_distance = 0
    /\ last_distances_list = <<>>
    /\ time_to_leave_radius_10_list = <<>>
    /\ last = NoStep
    /\ ret = NoResult
    /\ config = NoConfig
    /\ error_messages = <<>>
    /\ run_calls = 0
    /\ \/ /\ position = Tuple(Origin)
          /\ InitSimulatorCall
       \/ /\ position \in WalkerPositions
          /\ InitWalkerCall
          /\ obstacles = <<>>
          /\ gates = <<>>
          /\ restart_step = NoRestart

Return(value) ==
    /\ ~ret.done
    /\ ret' = [done |-> TRUE, value |-> value]
    /\ UNCHANGED <<cfgVars, runVars, args, config, error_messages, run_calls>>

CallIntersect ==
    /\ args.fn = "are_lines_intersecting"
    /\ Return(are_lines_intersecting(args.a1, args.a2, args.b1, args.b2))

CallObstacles ==
    /\ args.fn = "check_obstacles"
    /\ Return(check_obstacles(args.walker_position, args.new_position))

CallGates ==
    /\ args.fn = "check_gates"
    /\ Return(check_gates(args.walker_position, args.new_position))

CallRestart ==
    /\ args.fn = "check_restart_step"
    /\ \E coins \in [1..restart_matches(args.step) -> BOOLEAN] :
         Return([coins |-> coins,
                 result |-> check_restart_step(args.new_position, args.step, coins)])

\* A call of a method of Walker: its return value and the stored position
\* it leaves.
WalkerReturn(value, stored) ==
    /\ ~ret.done
    /\ ret' = [done |-> TRUE, value |-> value]
    /\ position' = stored
    /\ UNCHANGED <<cfgVars, args, statistics, pc, num_simulate, step,
                   time_to_leave_radius_10, num_crossed_y_axis, keep_calculate,
                   last_distance, last_distances_list,
                   time_to_leave_radius_10_list, last, config, error_messages,
                   run_calls>>

StepReturn(draw, candidate) ==
    WalkerReturn([draw |-> draw, result |-> candidate],
                 position_after_step(position, candidate))

CallRandomStep ==
    /\ args.fn = "random_step"
    /\ \E draw \in RandomStepDraws : StepReturn(draw, random_step(position, draw))

CallRandomStepLength ==
    /\ args.fn = "random_step_length"
    /\ \E draw \in RandomStepLengthDraws :
         StepReturn(draw, random_step_length(position, draw))

CallFourOptionsStep ==
    /\ args.fn = "four_options_step"
    /\ \E draw \in FourOptionsDraws :
         StepReturn(draw, four_options_step(position, draw))

CallBiasedStep ==
    /\ args.fn = "biased_step"
    /\ \E draw \in BiasedDraws :
         StepReturn(draw, biased_step(position, args.increased_direction,
                                      args.increase_percentage, draw))

CallStepTowardsBeginning ==
    /\ args.fn = "step_towards_beginning"
    /\ StepReturn([none |-> TRUE], step_towards_beginning(position))

CallGetPosition ==
    /\ args.fn = "get_position"
    /\ WalkerReturn([result |-> get_position(position)], position)

CallSetPosition ==
    /\ args.fn = "set_position"
    /\ WalkerReturn([result |-> "None"], set_position(position, args.position))

NextCall ==
    \/ CallIntersect \/ CallObstacles \/ CallGates \/ CallRestart
    \/ CallRandomStep \/ CallRandomStepLength \/ CallFourOptionsStep
    \/ CallBiasedStep \/ CallStepTowardsBeginning
    \/ CallGetPosition \/ CallSetPosition

SpecCall == InitCall /\ [][NextCall]_vars

(***************************************************************************)
(* RandomWalkSimulatorGUI.run_simulation (src/random_walk_gui.py, lines    *)
(* 92-121) on a path and the content of the file it names.                 *)
(*   pc = "gui"            run_simulation is called                        *)
(*   pc = "gui_parse"      an Inputs object exists, before line 104        *)
(*   pc = "gui_check"      parse_config_file returned True, before 111     *)
(*   pc = "gui_construct"  check_inputs returned True, before line 117     *)
(*   pc = "gui_returned"   an error was shown and run_simulation returned  *)
(*   pc = "gui_raised"     an exception left check_inputs                  *)
(* Line 117 constructs the Simulator and line 121 runs it: from pc = "new" *)
(* on, the steps are those of Simulator.run.                               *)
(***************************************************************************)
IntList(numbers) == ListV([i \in DOMAIN numbers |-> IntV(numbers[i])])

FileObstacles ==
    {StrV(""), ListV(<<IntList(<<0, 1, 1, 1>>)>>), ListV(<<IntList(<<0, 1, 1>>)>>)}

FileGates ==
    {StrV(""),
     ListV(<<ListV(<<IntV(1), IntV(-1), IntV(1), IntV(1), IntList(<<12, 0>>)>>)>>),
     ListV(<<IntList(<<1, -1, 1, 1, 12>>)>>)}

\* The contents of the configuration files: JSON objects, and an array.
ConfigFiles ==
    [top : {"object"}, others : {{}, {"seed"}},
     walker_type : {Absent, IntV(3), IntV(4), IntV(5)},
     num_simulations : {IntV(1), IntV(0)},
     num_steps : {IntV(1), StrV("1")},
     save_results : {StrV("No"), Absent},
     plot_statistics : {StrV("No"), StrV("maybe")},
     obstacles : FileObstacles,
     gates : FileGates,
     biased_walker_direction : {Absent, StrV(""), StrV("up"), StrV("north")},
     biased_walker_increasing : {Absent, StrV(""), IntV(50), IntV(101)},
     restart_step : {StrV(""), IntList(<<1>>), IntList(<<0>>)}]
    \cup {[NoConfig EXCEPT !.top = "array"]}

Paths == {"blank", "missing", "directory", "invalid json", "file"}

NotYet == [done |-> FALSE, parsed |-> "no", checked |-> "no"]

InitInputs ==
    /\ walker_type = 0
    /\ num_simulations = 0
    /\ num_steps = 0
    /\ obstacles = <<>>
    /\ gates = <<>>
    /\ direction = ""
    /\ percents = 0
    /\ restart_step = NoRestart
    /\ statistics = initial_statistics
    /\ pc = "gui"
    /\ num_simulate = 0
    /\ step = 0
    /\ position = Tuple(Origin)
    /\ time_to_leave_radius_10 = 0
    /\ num_crossed_y_axis = 0
    /\ keep_calculate = TRUE
    /\ last_distance = 0
    /\ last_distances_list = <<>>
    /\ time_to_leave_radius_10_list = <<>>
    /\ last = NoStep
    /\ ret = NotYet
    /\ config = NoConfig
    /\ error_messages = <<>>
    /\ run_calls = 0
    /\ \/ args \in [fn : {"run_simulation"}, path : Paths \ {"file"}, data : {NoConfig}]
       \/ args \in [fn : {"run_simulation"}, path : {"file"}, data : ConfigFiles]

GuiStep(next_pc) ==
    /\ pc' = next_pc
    /\ UNCHANGED <<cfgVars, args, statistics, num_simulate, step, position,
                   time_to_leave_radius_10, num_crossed_y_axis, keep_calculate,
                   last_distance, last_distances_list,
                   time_to_leave_radius_10_list, last, run_calls>>

\* Lines 96-103.
GuiRunSimulation ==
    /\ pc = "gui"
    /\ UNCHANGED <<ret, config, error_messages>>
    /\ IF args.path = "blank" THEN GuiStep("gui_returned") ELSE GuiStep("gui_parse")

\* Lines 104-108.
GuiParse ==
    /\ pc = "gui_parse"
    /\ \E result \in {parse_config_file(args.path, error_messages)} :
         /\ error_messages' = result.msgs
         /\ config' = IF result.ok THEN args.data ELSE config
         /\ ret' = [ret EXCEPT !.parsed = IF result.ok THEN "True" ELSE "False"]
         /\ GuiStep(IF result.ok THEN "gui_check" ELSE "gui_returned")

\* Lines 111-115.
GuiCheck ==
    /\ pc = "gui_check"
    /\ \E result \in {check_inputs(config, error_messages)} :
         /\ error_messages' = result.msgs
         /\ config' = config
         /\ ret' = [ret EXCEPT !.checked = IF result.raised THEN "raised"
                                            ELSE IF result.ok THEN "True" ELSE "False"]
         /\ GuiStep(IF result.raised THEN "gui_raised"
                    ELSE IF result.ok THEN "gui_construct" ELSE "gui_returned")

\* The arguments of Simulator(...) from the values of the configuration.
SimObstacles(value) ==
    IF value.t # "list" THEN <<>>
    ELSE [i \in DOMAIN value.items |->
             [j \in DOMAIN value.items[i].items |-> value.items[i].items[j].n]]

SimGate(items) ==
    [area |-> [j \in 1..(Len(items) - 1) |-> items[j].n],
     goal |-> <<items[Len(items)].items[1].n, items[Len(items)].items[2].n>>]

SimGates(value) ==
    IF value.t # "list" THEN <<>>
    ELSE [i \in DOMAIN value.items |-> SimGate(value.items[i].items)]

SimRestart(value) ==
    IF value.t # "list" THEN NoRestart
    ELSE RestartList([i \in DOMAIN value.items |-> value.items[i].n])

\* Lines 117-120: Simulator(...); line 121 then calls run().
GuiConstruct ==
    /\ pc = "gui_construct"
    /\ walker_type' = config.walker_type.n
    /\ num_simulations' = config.num_simulations.n
    /\ num_steps' = config.num_steps.n
    /\ obstacles' = SimObstacles(config.obstacles)
    /\ gates' = SimGates(config.gates)
    /\ direction' = config.biased_walker_direction.s
    /\ percents' = config.biased_walker_increasing.n
    /\ restart_step' = SimRestart(config.restart_step)
    /\ statistics' = initial_statistics
    /\ pc' = "new"
    /\ UNCHANGED <<callVars, num_simulate, step, position,
                   time_to_leave_radius_10, num_crossed_y_axis, keep_calculate,
                   last_distance, last_distances_list,
                   time_to_leave_radius_10_list, last>>

NextInputs ==
    \/ GuiRunSimulation \/ GuiParse \/ GuiCheck \/ GuiConstruct
    \/ RunBegin \/ SimBegin \/ Step \/ SimEnd \/ Reduce

SpecInputs == InitInputs /\ [][NextInputs]_vars

(***************************************************************************)
(* The claims about single calls, checked under SpecCall.                  *)
(***************************************************************************)
Cross(u, v) == u[1] * v[2] - u[2] * v[1]

Dot(u, v) == u[1] * v[1] + u[2] * v[2]

Minus(p, q) == <<p[1] - q[1], p[2] - q[2]>>

\* num / den lies in [0, 1], for den # 0.
InUnitInterval(num, den) ==
    IF den > 0 THEN 0 <= num /\ num <= den ELSE den <= num /\ num <= 0

\* The point p lies on the closed segment from q to r.
PointOnSegment(p, q, r) ==
    /\ Cross(Minus(r, q), Minus(p, q)) = 0
    /\ Min(q[1], r[1]) <= p[1] /\ p[1] <= Max(q[1], r[1])
    /\ Min(q[2], r[2]) <= p[2] /\ p[2] <= Max(q[2], r[2])

\* The closed segments a1-a2 and b1-b2 have a point in common.  When the
\* directions are not parallel the lines meet in a1 + t (a2 - a1) =
\* b1 + u (b2 - b1), and the point is common when t and u are in [0, 1];
\* otherwise a common point exists exactly when an endpoint of one segment
\* lies on the other.
SegmentsMeet(a1, a2, b1, b2) ==
    LET r == Minus(a2, a1)
        s == Minus(b2, b1)
        w == Minus(b1, a1)
        den == Cross(r, s)
    IN  IF den # 0
        THEN InUnitInterval(Cross(w, s), den) /\ InUnitInterval(Cross(w, r), den)
        ELSE \/ PointOnSegment(b1, a1, a2)
             \/ PointOnSegment(b2, a1, a2)
             \/ PointOnSegment(a1, b1, b2)
             \/ PointOnSegment(a2, b1, b2)

Returned(fn) == ret.done /\ args.fn = fn

\* C1: are_lines_intersecting returns True exactly when the closed segments
\* a1-a2 and b1-b2 have a point in common, collinear points included.
C1_IntersectIsSegmentTest ==
    Returned("are_lines_intersecting") =>
        (ret.value <=> SegmentsMeet(args.a1, args.a2, args.b1, args.b2))

\* C2: are_lines_intersecting gives the same result with its two segments
\* exchanged.
C2_IntersectSymmetric ==
    Returned("are_lines_intersecting") =>
        (ret.value <=> are_lines_intersecting(args.b1, args.b2, args.a1, args.a2))

\* A call on four collinear points, two proper segments, that returned True.
C2_Witness ==
    /\ Returned("are_lines_intersecting")
    /\ ret.value
    /\ args.a1 # args.a2 /\ args.b1 # args.b2
    /\ orientation(args.a1, args.a2, args.b1) = 0
    /\ orientation(args.a1, args.a2, args.b2) = 0
    /\ {args.a1, args.a2} # {args.b1, args.b2}

\* The only common point of the proper segments a1-a2 and b1-b2 is the
\* endpoint e of both: a and b are the other endpoints.
OnlyMeetAt(e, a, b) ==
    /\ a # e /\ b # e
    /\ \/ Cross(Minus(a, e), Minus(b, e)) # 0
       \/ Dot(Minus(a, e), Minus(b, e)) < 0

OnlyCommonPointIsEndpoint(a1, a2, b1, b2) ==
    \/ a1 = b1 /\ OnlyMeetAt(a1, a2, b2)
    \/ a1 = b2 /\ OnlyMeetAt(a1, a2, b1)
    \/ a2 = b1 /\ OnlyMeetAt(a2, a1, b2)
    \/ a2 = b2 /\ OnlyMeetAt(a2, a1, b1)

\* C3: two proper segments whose only common point is an endpoint of both
\* are reported as intersecting.
C3_SharedEndpointIntersects ==
    (/\ Returned("are_lines_intersecting")
     /\ OnlyCommonPointIsEndpoint(args.a1, args.a2, args.b1, args.b2))
        => ret.value

\* C4: with an obstacle whose endpoints are exactly the walker's position p
\* and the candidate q # p, in either order, check_obstacles returns the
\* point p (as a new tuple).
C4_OverlappingObstacleCancels ==
    (/\ Returned("check_obstacles")
     /\ args.walker_position.pt # args.new_position.pt
     /\ \E k \in DOMAIN obstacles :
          obstacles[k] \in {Segment(args.walker_position.pt, args.new_position.pt),
                            Segment(args.new_position.pt, args.walker_position.pt)})
        => ret.value = Tuple(args.walker_position.pt)

\* The overlapping obstacle is given from q to p and follows an obstacle
\* that the step does not touch.
C4_Witness ==
    /\ Returned("check_obstacles")
    /\ args.walker_position.pt # args.new_position.pt
    /\ Len(obstacles) = 2
    /\ ~obstacle_hit(args.walker_position, args.new_position, obstacles[1])
    /\ obstacles[2] = Segment(args.new_position.pt, args.walker_position.pt)
    /\ ret.value = Tuple(args.walker_position.pt)

\* The k-th point of the polyline of a gate, k = 1 .. GatePoints(gate).
GatePoint(gate, k) == <<gate.area[2 * k - 1], gate.area[2 * k]>>

GatePoints(gate) == Len(gate.area) \div 2

\* Some segment between consecutive polyline points of the gate is
\* reported as intersecting the step.
GateMatches(gate, old, candidate) ==
    \E k \in 1..(GatePoints(gate) - 1) :
        are_lines_intersecting(old, candidate, GatePoint(gate, k), GatePoint(gate, k + 1))

MatchingGates(old, candidate) ==
    {g \in DOMAIN gates : GateMatches(gates[g], old, candidate)}

\* C6: check_gates returns the goal of the first gate of the list one of
\* whose polyline segments intersects the step, whatever later segments and
\* later gates do, and the candidate when no polyline segment of any gate
\* intersects it; no segment ending in a goal point is tested.
C6_FirstMatchingGateWins ==
    Returned("check_gates") =>
        LET matching == MatchingGates(args.walker_position.pt, args.new_position.pt)
        IN  IF matching = {}
            THEN ret.value = args.new_position
            ELSE \E g \in matching :
                    /\ \A h \in matching : g <= h
                    /\ ret.value = List(gates[g].goal)

\* Both gates of the list match the step and the first one has two matching
\* segments.
C6_Witness ==
    /\ Returned("check_gates")
    /\ Len(gates) = 2
    /\ MatchingGates(args.walker_position.pt, args.new_position.pt) = {1, 2}
    /\ gates[1].goal # gates[2].goal
    /\ GatePoints(gates[1]) = 3
    /\ \A k \in 1..2 :
          are_lines_intersecting(args.walker_position.pt, args.new_position.pt,
                                 GatePoint(gates[1], k), GatePoint(gates[1], k + 1))
    /\ ret.value = List(gates[1].goal)

\* The step would cross the segment from the last polyline point of a gate
\* to its goal, crosses no polyline segment, and is returned unchanged.
C6_GoalSegmentWitness ==
    /\ Returned("check_gates")
    /\ MatchingGates(args.walker_position.pt, args.new_position.pt) = {}
    /\ \E g \in DOMAIN gates :
          SegmentsMeet(args.walker_position.pt, args.new_position.pt,
                       GatePoint(gates[g], GatePoints(gates[g])), gates[g].goal)
    /\ args.walker_position.pt # args.new_position.pt
    /\ ret.value = args.new_position

TowardsZero(c) == IF c > 0 THEN c - 1 ELSE IF c < 0 THEN c + 1 ELSE c

BiasedMoves == <<(<<0, 1>>), (<<0, -1>>), (<<1, 0>>), (<<-1, 0>>)>>

\* C11: biased_step returns, when the fifth move is the one sampled, the
\* stored position moved one unit toward the origin along each axis, and
\* for the samples 1..4 the position plus (0,1), (0,-1), (1,0), (-1,0).
C11_BiasedStepCandidate ==
    Returned("biased_step") =>
        LET x == args.self.pt[1]
            y == args.self.pt[2]
            choice == ret.value.draw.choice
        IN  ret.value.result.pt =
                IF choice = 5
                THEN <<TowardsZero(x), TowardsZero(y)>>
                ELSE <<x + BiasedMoves[choice][1], y + BiasedMoves[choice][2]>>

WalkerStepMethods ==
    {"random_step", "random_step_length", "four_options_step", "biased_step",
     "step_towards_beginning"}

C12_SetPositionWitness ==
    /\ Returned("set_position")
    /\ args.self.kind = "tuple"
    /\ position.kind = "list"
    /\ position.pt # args.self.pt

\* C23: the direction drawn by random_step is an angle of 0 degrees or more
\* and less than 360, so that no two draws give the same direction.
C23_DirectionBelow360 ==
    Returned("random_step") =>
        (0 <= ret.value.draw.deg /\ ret.value.draw.deg < 360)

\* What does hold: the angle is between 0 and 360, both included, and the
\* only two draws that give one direction are 0 and 360.
C23_DirectionUpTo360 ==
    Returned("random_step") =>
        /\ 0 <= ret.value.draw.deg /\ ret.value.draw.deg <= 360
        /\ \A other \in RandomStepDraws :
              (random_step(args.self, other) = ret.value.result
                  /\ other # ret.value.draw)
                  => {other.deg, ret.value.draw.deg} = {0, 360}

\* The first of the coins that shows True, when one does.
FirstTrue(coins) == CHOOSE i \in DOMAIN coins : coins[i] /\ \A j \in 1..(i - 1) : ~coins[j]

Reversed(obstacle) == <<obstacle[3], obstacle[4], obstacle[1], obstacle[2]>>

\* C27: are_lines_intersecting gives the same result with the endpoints of
\* its first segment exchanged, and with those of its second; an obstacle
\* cancels the same steps whichever of its endpoints is given first.
C27_EndpointOrderIrrelevant ==
    /\ Returned("are_lines_intersecting") =>
          /\ ret.value = are_lines_intersecting(args.a2, args.a1, args.b1, args.b2)
          /\ ret.value = are_lines_intersecting(args.a1, args.a2, args.b2, args.b1)
    /\ Returned("check_obstacles") =>
          \A k \in DOMAIN obstacles :
              obstacle_hit(args.walker_position, args.new_position, obstacles[k])
                  = obstacle_hit(args.walker_position, args.new_position,
                                 Reversed(obstacles[k]))

\* What does hold: the same, for the calls in which no endpoint of a
\* segment is on the line through the other segment.
C27_NoThreeCollinear ==
    (/\ Returned("are_lines_intersecting")
     /\ orientation(args.a1, args.a2, args.b1) # 0
     /\ orientation(args.a1, args.a2, args.b2) # 0
     /\ orientation(args.b1, args.b2, args.a1) # 0
     /\ orientation(args.b1, args.b2, args.a2) # 0) =>
          /\ ret.value = are_lines_intersecting(args.a2, args.a1, args.b1, args.b2)
          /\ ret.value = are_lines_intersecting(args.a1, args.a2, args.b2, args.b1)

(***************************************************************************)
(* The claims about runs, checked under Spec.                              *)
(***************************************************************************)
Stepped == last.step > 0

\* A coin flipped in the most recent step came up True.
CoinCameUpTrue == \E i \in DOMAIN last.coins : last.coins[i]

\* C5: in every step in which the obstacle check cancels the move, the gate
\* check is not performed and the committed position is the position before
\* the step, unless the restart check resets it to (0, 0).
C5_CancelledMoveSkipsGates ==
    (Stepped /\ last.obstacle_cancelled) =>
        /\ ~last.gates_checked
        /\ CoinCameUpTrue \/ position.pt = last.old_position.pt

\* C7: when the step is listed in restart_step and a coin flipped for it
\* comes up True, the position committed at that step is (0, 0), whatever
\* the candidate, the obstacle check and the gate check gave.
C7_RestartForcesOrigin ==
    (/\ Stepped
     /\ \E k \in DOMAIN restart_step.items : restart_step.items[k] = last.step
     /\ CoinCameUpTrue)
        => /\ position = Tuple(Origin)
           /\ last.new_position = Tuple(Origin)
           /\ statistics.locations_list[Len(statistics.locations_list)] = Tuple(Origin)

\* A gate redirected the move of a restart step to its goal, the second
\* coin of the step came up True, and the walker is at the origin.
C7_Witness ==
    /\ Stepped
    /\ last.gates_checked
    /\ last.after_gates.kind = "list"
    /\ last.after_gates.pt # Origin
    /\ last.coins = <<FALSE, TRUE>>
    /\ position = Tuple(Origin)

\* A number of the statistics that is 0: no sample is negative, so the
\* quotient is 0 exactly when every summand is.
IsZero(value) == ~value.isList /\ \A i \in DOMAIN value.of : value.of[i] = 0

AllAveragesZero ==
    /\ \A name \in SeriesNames :
          \A key \in DOMAIN statistics[name] : IsZero(statistics[name][key])
    /\ \A key \in DOMAIN statistics.average_time_to_leave_radius_10 :
          IsZero(statistics.average_time_to_leave_radius_10[key])

\* C9: with num_simulations = 0 the reduction completes without a division
\* error and every key of every series, the time-to-leave summary included,
\* has the average 0.
C9_ZeroRunsReduceToZero ==
    (num_simulations = 0 /\ pc \in {"done", "error"}) =>
        /\ pc = "done"
        /\ AllAveragesZero
        /\ DOMAIN statistics.average_time_to_leave_radius_10 # {}

UnitSteps == {<<1, 0>>, <<-1, 0>>, <<0, 1>>, <<0, -1>>}

PlainFourDirectionRun ==
    /\ walker_type = 3
    /\ num_simulations = 1
    /\ obstacles = <<>>
    /\ gates = <<>>
    /\ restart_step.items = <<>>

\* C10: after run() with walker_type 3, one simulation of N >= 1 steps, no
\* obstacles, gates or restart steps, the path trace has N + 1 positions,
\* starts at (0, 0), moves by one unit along one axis between consecutive
\* positions, and average_distance_from_origin[0] is 0.
C10_PlainFourDirectionTrace ==
    (PlainFourDirectionRun /\ pc = "done") =>
        LET trace == statistics.locations_list
        IN  /\ Len(trace) = num_steps + 1
            /\ trace[1] = Tuple(Origin)
            /\ \A i \in 1..(Len(trace) - 1) :
                  Minus(trace[i + 1].pt, trace[i].pt) \in UnitSteps
            /\ 0 \in DOMAIN statistics.average_distance_from_origin
            /\ IsZero(statistics.average_distance_from_origin[0])

\* Such a run of the largest number of steps has returned, away from the
\* origin.
C10_Witness ==
    /\ PlainFourDirectionRun
    /\ pc = "done"
    /\ num_steps = MaxSteps
    /\ Len(statistics.locations_list) = MaxSteps + 1
    /\ position.pt # Origin

\* The keys 0, 5, 10, ... up to N, and N.
SampledKeys(N) == {k \in 0..N : k % 5 = 0} \cup {N}

\* C13: after run() each of the four per-step series has exactly the keys
\* {0, 5, 10, ... <= N} and N, and the value 0 at the key 0.
C13_SeriesKeys ==
    pc = "done" =>
        \A name \in SeriesNames :
            /\ DOMAIN statistics[name] = SampledKeys(num_steps)
            /\ IsZero(statistics[name][0])

\* A run whose number of steps is above 5 and no multiple of 5 has returned:
\* the series have a stride key and the final step as keys.
C13_Witness ==
    /\ pc = "done"
    /\ num_steps > 5
    /\ num_steps % 5 # 0
    /\ DOMAIN statistics.crossed_y_axis = {0, 5, num_steps}

\* The position committed at step k of run r (r = 0 for the first run): the
\* path trace holds the origin and then one position per step of every run.
RunPosition(r, k) == statistics.locations_list[r * num_steps + k + 1]

\* The steps of run r, among the first n, whose committed position is at a
\* distance above 10 from the origin.
ExceedingSteps(r, n) == {k \in 1..n : Norm2(RunPosition(r, k)) > RadiusSq}

\* The number of steps of run r taken before the first step that exceeds
\* the radius, or num_steps when no step does.
TimeToExceed(r) ==
    LET exceeding == ExceedingSteps(r, num_steps)
    IN  IF exceeding = {} THEN num_steps
        ELSE (CHOOSE k \in exceeding : \A j \in exceeding : k <= j) - 1

\* C14: at the end of each run, time_to_leave_radius_10 is the number of
\* steps taken before the first step whose committed position is at a
\* distance above 10 from the origin, or num_steps when there is none.
C14_TimeToLeaveIsTimeToExceed ==
    pc = "end_run" => time_to_leave_radius_10 = TimeToExceed(num_simulate)

\* The same, for the runs none of whose positions before the first one
\* above the radius is at the distance 10 exactly.
C14_AwayFromTheCircle ==
    (/\ pc = "end_run"
     /\ \A k \in 1..TimeToExceed(num_simulate) :
           Norm2(RunPosition(num_simulate, k)) # RadiusSq)
        => time_to_leave_radius_10 = TimeToExceed(num_simulate)

\* The number of steps performed so far: the path trace holds the origin
\* and one position per step.
StepsPerformed == Len(statistics.locations_list) - 1

\* Some value of the per-step series has been replaced by its average.
Reduced ==
    \E name \in SeriesNames : \E key \in DOMAIN statistics[name] :
        ~statistics[name][key].isList

\* While run num_simulate is at its step number step, the runs before it
\* have performed all their steps and it has performed step - 1; the
\* reduction is made with all num_simulations * num_steps steps performed.
RunsInSequence ==
    /\ pc = "step" => StepsPerformed = num_simulate * num_steps + step - 1
    /\ pc = "end_run" => StepsPerformed = (num_simulate + 1) * num_steps
    /\ pc = "loop" => StepsPerformed = num_simulate * num_steps
    /\ num_simulate <= num_simulations
    /\ (Reduced \/ pc = "done") =>
          /\ StepsPerformed = num_simulations * num_steps
          /\ pc \in {"done", "error"}
    /\ (pc = "step" /\ step > 1) => last.step = step - 1
    /\ pc = "end_run" => last.step = num_steps

\* C15: with num_simulations >= 1, run() returns after exactly
\* num_simulations * num_steps steps, the runs are performed one after
\* another, and the reduction is made after the last step of the last run.
C15_RunsToCompletion ==
    /\ []RunsInSequence
    /\ (num_simulations >= 1) ~>
          (pc = "done" /\ StepsPerformed = num_simulations * num_steps)

\* The second of two runs of two steps has ended and the reduction is not
\* made yet.
C15_Witness ==
    /\ num_simulations = 2
    /\ num_steps = 2
    /\ num_simulate = 2
    /\ pc = "loop"
    /\ StepsPerformed = 4
    /\ ~Reduced

\* The number of steps the current run has performed.
StepsOfRun == StepsPerformed - num_simulate * num_steps

\* A step of the current run has committed a position at a distance above
\* 10 from the origin.
RunExceeded == ExceedingSteps(num_simulate, StepsOfRun) # {}

\* C17: once a step of a run has committed a position at a distance above
\* 10, no later step of that run changes time_to_leave_radius_10 or
\* last_distance or adds a sample to average_time_to_leave_radius_10.
C17_CountingStopsAfterLeaving ==
    [][RunExceeded =>
         /\ time_to_leave_radius_10' = time_to_leave_radius_10
         /\ last_distance' = last_distance
         /\ statistics'.average_time_to_leave_radius_10 =
               statistics.average_time_to_leave_radius_10]_vars

\* The walker was put at a distance above 10 by a gate at the first step of
\* the run, a later step has brought it back inside the radius, and the
\* counter and the last distance are those of a run that counted no step.
C17_Witness ==
    /\ pc \in {"step", "end_run"}
    /\ StepsOfRun >= 2
    /\ 1 \in ExceedingSteps(num_simulate, StepsOfRun)
    /\ Norm2(position) < RadiusSq
    /\ time_to_leave_radius_10 = 0
    /\ last_distance = 0
    /\ DOMAIN statistics.average_time_to_leave_radius_10 = {}

\* A step of the loop over the steps is taken.
StepTaken == StepsPerformed' = StepsPerformed + 1

\* One of the two numbers is above 0 and the other below.
OppositeSigns(a, b) == (a > 0 /\ b < 0) \/ (a < 0 /\ b > 0)

YBefore(r, j) == IF j = 1 THEN 0 ELSE RunPosition(r, j - 1).pt[2]

\* The number of crossings run r has made in its first k steps.
CrossingsUpTo(r, k) ==
    Cardinality({j \in 1..k : OppositeSigns(YBefore(r, j), RunPosition(r, j).pt[2])})

\* What run r contributes to a series at the step k (the distance from the
\* origin as its square).
SampleAt(name, r, k) ==
    CASE name = "average_distance_from_origin" -> Norm2(RunPosition(r, k))
      [] name = "average_distance_from_y_axis" -> Abs(RunPosition(r, k).pt[1])
      [] name = "average_distance_from_x_axis" -> Abs(RunPosition(r, k).pt[2])
      [] OTHER -> CrossingsUpTo(r, k)

ExpectedSamples(name, k) ==
    [i \in 1..num_simulations |-> SampleAt(name, i - 1, k)]

AllRunsEnded == pc = "loop" /\ num_simulate = num_simulations

\* C19: with S >= 1 runs, after the last run and before the reduction every
\* key k > 0 of the four per-step series holds exactly the S samples of the
\* runs at step k, in the order of the runs, and no key is added; after the
\* reduction its value is the sum of these samples divided by S.
C19_SampledStepsAveraged ==
    (num_simulations >= 1 /\ (AllRunsEnded \/ pc = "done")) =>
        \A name \in SeriesNames :
            /\ DOMAIN statistics[name] = SampledKeys(num_steps)
            /\ \A k \in DOMAIN statistics[name] \ {0} :
                  statistics[name][k] =
                      IF pc = "done"
                      THEN Quotient(ExpectedSamples(name, k), num_simulations)
                      ELSE Samples(ExpectedSamples(name, k))

\* Two runs of two steps are reduced: the first crossed the axis at its
\* second step and the second did not, and the two ended at different
\* distances from the origin.
C19_Witness ==
    /\ pc = "done"
    /\ num_simulations = 2
    /\ num_steps = 2
    /\ statistics.crossed_y_axis[2] = Quotient(<<1, 0>>, 2)
    /\ statistics.average_distance_from_origin[2].of[1] #
          statistics.average_distance_from_origin[2].of[2]

\* The steps of run r that the run counted: the committed position is at a
\* distance below 10 and no step up to it is at a distance above 10.
CountedSteps(r) ==
    {k \in 1..num_steps :
        Norm2(RunPosition(r, k)) < RadiusSq /\ ExceedingSteps(r, k) = {}}

\* The final time_to_leave_radius_10 and last_distance of run r, from the
\* path trace (the distance as its square; 0 when no step was counted).
FinalTimeToLeave(r) == Cardinality(CountedSteps(r))

FinalLastDistance(r) ==
    LET counted == CountedSteps(r)
    IN  IF counted = {} THEN 0
        ELSE Norm2(RunPosition(r, CHOOSE k \in counted : \A j \in counted : j <= k))

\* The key of the summary entry: the mean of the time-to-leave values.
MeanTimeToLeave == Rational(Sum(time_to_leave_radius_10_list), num_simulations)

\* C20: after run() with S >= 1 runs the two cross-run lists hold S entries,
\* the final last_distance and the final time_to_leave_radius_10 of each run
\* in the order of the runs, and average_time_to_leave_radius_10 maps the
\* mean of the S time-to-leave values to the mean of the S last distances,
\* also when that mean is a step key of the dictionary.
C20_SummaryEntry ==
    (pc = "done" /\ num_simulations >= 1) =>
        /\ Len(last_distances_list) = num_simulations
        /\ Len(time_to_leave_radius_10_list) = num_simulations
        /\ \A i \in 1..num_simulations :
              /\ time_to_leave_radius_10_list[i] = FinalTimeToLeave(i - 1)
              /\ last_distances_list[i] = FinalLastDistance(i - 1)
        /\ MeanTimeToLeave \in DOMAIN statistics.average_time_to_leave_radius_10
        /\ statistics.average_time_to_leave_radius_10[MeanTimeToLeave] =
              Quotient(last_distances_list, num_simulations)

\* Two runs have returned and the mean time-to-leave is a step m >= 1 that
\* one run counted and the other did not: the dictionary had the key m with
\* one sample, and the entry written over it has the two last distances.
C20_Witness ==
    /\ pc = "done"
    /\ num_simulations = 2
    /\ MeanTimeToLeave[2] = 1
    /\ MeanTimeToLeave[1] >= 1
    /\ \E r1, r2 \in 0..1 :
          /\ MeanTimeToLeave[1] \in CountedSteps(r1)
          /\ MeanTimeToLeave[1] \notin CountedSteps(r2)
    /\ Len(statistics.average_time_to_leave_radius_10[MeanTimeToLeave].of) = 2

\* The number of steps the loops have performed, from the position in them:
\* the runs before the current one have made num_steps steps each.
StepsByControl ==
    CASE pc = "new" -> 0
      [] pc = "loop" -> num_simulate * num_steps
      [] pc = "step" -> num_simulate * num_steps + step - 1
      [] pc = "end_run" -> (num_simulate + 1) * num_steps
      [] OTHER -> num_simulations * num_steps

\* The current run has committed a step.
RunHasStepped == (pc = "step" /\ step > 1) \/ pc = "end_run"

\* C21: a run makes its first step from (0, 0); the path trace holds one
\* position more than the steps performed so far over all runs; once the
\* current run has committed a step the last position of the trace is the
\* walker's position; after run() the trace has 1 + num_simulations *
\* num_steps positions.
C21_FreshWalkerAndTrace ==
    /\ (pc = "step" /\ step = 1) => position = Tuple(Origin)
    /\ Len(statistics.locations_list) = 1 + StepsByControl
    /\ RunHasStepped =>
          statistics.locations_list[Len(statistics.locations_list)] = position
    /\ pc = "done" =>
          Len(statistics.locations_list) = 1 + num_simulations * num_steps

\* The second run has made its first step, from the origin, after a first
\* run that ended two units or more away from it.
C21_Witness ==
    /\ num_simulate = 1
    /\ pc = "step"
    /\ step = 2
    /\ last.old_position = Tuple(Origin)
    /\ Norm2(RunPosition(0, num_steps)) >= 4
    /\ position.pt # Origin

\* C22: a second call of run() on the same Simulator raises nothing, and
\* what it leaves depends on its own runs only: the path trace holds the
\* origin and one position per step of the second call, and no value
\* averaged by the first call is in average_time_to_leave_radius_10 while
\* the second call runs.
C22_SecondCallIsFresh ==
    run_calls = 1 =>
        /\ pc # "error"
        /\ Len(statistics.locations_list) = 1 + StepsByControl
        /\ pc \in {"loop", "step", "end_run"} =>
              \A key \in DOMAIN statistics.average_time_to_leave_radius_10 :
                  statistics.average_time_to_leave_radius_10[key].isList

\* What does hold of a second call: the four per-step series are made anew,
\* so hold samples of the second call only.
C22_SeriesAreReplaced ==
    (run_calls = 1 /\ pc \in {"loop", "step", "end_run"}) =>
        \A name \in SeriesNames :
            /\ DOMAIN statistics[name] = SampledKeys(num_steps)
            /\ \A key \in DOMAIN statistics[name] :
                  /\ statistics[name][key].isList
                  /\ Len(statistics[name][key].of) <= num_simulate + 1

\* The three outcomes of a second call: it returns, it raises in a step
\* (line 89), it raises in the reduction after its last run (line 160).
SecondCallReturned == run_calls = 1 /\ pc = "done"

SecondCallRaisedInStep == run_calls = 1 /\ pc = "error" /\ num_simulate < num_simulations

SecondCallRaisedInReduction ==
    run_calls = 1 /\ pc = "error" /\ num_simulate = num_simulations

\* A run is at a step or after its last step.
InRun == pc \in {"step", "end_run"}

\* The number of steps the current run has performed, from the loop index.
StepsOfRunByControl == IF pc = "step" THEN step - 1 ELSE num_steps

\* The distances (as squares) of the positions the current run has committed.
RunDistances ==
    {Norm2(RunPosition(num_simulate, k)) : k \in 1..StepsOfRunByControl}

\* The counter is between 0 and the number of steps of the run; the last
\* distance is 0 or that of a committed position of the run, and below 10;
\* every sample of average_time_to_leave_radius_10 is below 10.
CountersInRange ==
    InRun =>
        /\ 0 <= time_to_leave_radius_10
        /\ time_to_leave_radius_10 <= StepsOfRunByControl
        /\ last_distance \in {0} \cup RunDistances
        /\ last_distance < RadiusSq
        /\ \A key \in DOMAIN statistics.average_time_to_leave_radius_10 :
              \A i \in DOMAIN statistics.average_time_to_leave_radius_10[key].of :
                  statistics.average_time_to_leave_radius_10[key].of[i] < RadiusSq

\* C25: at every point of every run the counters are in range, and
\* keep_calculate, once False, stays False to the end of the run.
C25_StepLoopInvariant ==
    /\ []CountersInRange
    /\ [][(InRun /\ ~keep_calculate) => ~keep_calculate']_vars

\* A run has counted a step, has then been put at a distance above 10, and
\* is back inside the radius at a position it does not count.
C25_Witness ==
    /\ InRun
    /\ ~keep_calculate
    /\ time_to_leave_radius_10 >= 1
    /\ time_to_leave_radius_10 < StepsOfRunByControl - 1
    /\ last_distance > 0
    /\ Norm2(position) < RadiusSq
    /\ Norm2(position) # last_distance

\* C26: with the four-direction or the biased walker and no gate, whatever
\* the obstacles and the restart steps, num_crossed_y_axis is 0 at every
\* step of every run and every value of crossed_y_axis is 0 after run().
C26_NoCrossingWithoutGates ==
    (walker_type \in {3, 4} /\ gates = <<>>) =>
        /\ num_crossed_y_axis = 0
        /\ \A key \in DOMAIN statistics.crossed_y_axis :
              /\ \A i \in DOMAIN statistics.crossed_y_axis[key].of :
                    statistics.crossed_y_axis[key].of[i] = 0
              /\ pc = "done" => IsZero(statistics.crossed_y_axis[key])

\* A biased walker with restart steps and no gate was below the axis after
\* its first step, on it after the second and is above it after the third:
\* no crossing is counted.
C26_Witness ==
    /\ walker_type = 4
    /\ gates = <<>>
    /\ ~restart_step.str
    /\ pc \in {"step", "end_run"}
    /\ last.step = 3
    /\ RunPosition(num_simulate, 1).pt[2] < 0
    /\ RunPosition(num_simulate, 2).pt = Origin
    /\ position.pt[2] > 0
    /\ num_crossed_y_axis = 0

(***************************************************************************)
(* The claims about the validation, checked under SpecInputs.              *)
(***************************************************************************)
IntListOf(value, length) ==
    /\ value.t = "list"
    /\ Len(value.items) = length
    /\ \A i \in DOMAIN value.items : value.items[i].t = "int"

ValidGate(value) ==
    /\ value.t = "list"
    /\ Len(value.items) >= 5
    /\ Len(value.items) % 2 = 1
    /\ \A i \in 1..(Len(value.items) - 1) : value.items[i].t = "int"
    /\ value.items[Len(value.items)].t = "list"
    /\ Len(value.items[Len(value.items)].items) = 2

InRange(value, low, high) == value.t = "int" /\ low <= value.n /\ value.n <= high

\* The configurations the validators are written to accept: every key and
\* no other, each value of its documented form; the two bias keys hold a
\* direction and a percentage, or "" when the walker is not the biased one.
ValidConfiguration(c) ==
    /\ c.top = "object"
    /\ c.others = {}
    /\ InRange(c.walker_type, 1, 4)
    /\ InRange(c.num_simulations, 1, 10000)
    /\ InRange(c.num_steps, 1, 10000)
    /\ IsStr(c.save_results, "Yes") \/ IsStr(c.save_results, "No")
    /\ IsStr(c.plot_statistics, "Yes") \/ IsStr(c.plot_statistics, "No")
    /\ \/ IsStr(c.obstacles, "")
       \/ /\ c.obstacles.t = "list"
          /\ \A i \in DOMAIN c.obstacles.items : IntListOf(c.obstacles.items[i], 4)
    /\ \/ IsStr(c.gates, "")
       \/ /\ c.gates.t = "list"
          /\ \A i \in DOMAIN c.gates.items : ValidGate(c.gates.items[i])
    /\ \/ ~Is4(c.walker_type) /\ IsStr(c.biased_walker_direction, "")
       \/ /\ c.biased_walker_direction.t = "str"
          /\ c.biased_walker_direction.s \in BiasDirectionNames
    /\ \/ ~Is4(c.walker_type) /\ IsStr(c.biased_walker_increasing, "")
       \/ InRange(c.biased_walker_increasing, 0, 100)
    /\ \/ IsStr(c.restart_step, "")
       \/ /\ c.restart_step.t = "list"
          /\ \A i \in DOMAIN c.restart_step.items :
                /\ c.restart_step.items[i].t \in {"int", "float"}
                /\ c.restart_step.items[i].n > 0

GuiControl ==
    {"gui", "gui_parse", "gui_check", "gui_construct", "gui_returned", "gui_raised"}

\* check_inputs returned False and left a message.
Rejected == ret.checked = "False" /\ Len(error_messages) >= 1

\* C16: check_inputs, called on a configuration that is not valid, returns
\* False with at least one error message and raises nothing; the Simulator
\* is constructed and run only after parse_config_file and check_inputs
\* have both returned True.
C16_InvalidConfigurationRejected ==
    /\ (ret.checked # "no" /\ ~ValidConfiguration(config)) => Rejected
    /\ pc \notin GuiControl => (ret.parsed = "True" /\ ret.checked = "True")

\* The configuration has the biased walker and lacks one of its two keys.
BiasKeyMissing(c) ==
    /\ Is4(c.walker_type)
    /\ c.biased_walker_direction = Absent \/ c.biased_walker_increasing = Absent

\* The same, apart from the files that hold an array and from the
\* configurations of the biased walker that lack one of its keys; and a
\* valid configuration is accepted.
C16_ExceptMissingBiasKey ==
    /\ (/\ ret.checked # "no"
        /\ ~ValidConfiguration(config)
        /\ config.top = "object"
        /\ ~BiasKeyMissing(config)) => Rejected
    /\ pc \notin GuiControl =>
          (ret.parsed = "True" /\ ret.checked = "True" /\ ValidConfiguration(config))
    /\ (ret.checked # "no" /\ ValidConfiguration(config)) => ret.checked = "True"

====
